---- MODULE Spec2Model ----
(***************************************************************************)
(* The blockstore backup engine of blockstores/blockstores.go:             *)
(* BackupSnapshot, run step by step against the remote blockstore driver   *)
(* and the local Blockstore record, and the pure mergeSnapshotMap.         *)
(*                                                                         *)
(* One blockstore with one volume is modelled.  The remote side is the     *)
(* volume's block objects and snapshot manifests; the local side is the    *)
(* Blockstore record <root>/<id>.cfg.  Every driver call of BackupSnapshot *)
(* may fail, and the process may be killed between any two calls.          *)
(***************************************************************************)
EXTENDS Integers, Sequences, FiniteSets, TLC

\* ------------------------------------------------------------------ bounds
NBlocks == 3        \* blocks of the source volume
MaxExtents == 2     \* extents in one delta reported by the local driver
MaxCalls == 2       \* calls in a row of one snapshot with the source unchanged

\* --------------------------------------------------------------- constants
DEFAULT_BLOCK_SIZE == 2097152

VolumeId == "v1"
SnapIds == {"s1", "s2"}
Contents == {"Z", "X"}          \* block payloads: all zeros, or some content X
NoFile == <<>>                  \* the remote driver has no object at the path
File(x) == <<x>>                \* an object at the path, holding x

\* ------------------------------------------------------------------ helpers
Range(f) == {f[i] : i \in DOMAIN f}

\* sha512.Sum512(block), hex, first 64 characters: a collision-free name of
\* the payload.
Digest(c) == <<"sha512", c>>
Digests == {Digest(c) : c \in Contents}

\* bsDriver.FileSize(path, fileName) of a block object: negative when absent.
BlockFileSize(blk, d) == IF blk[d] = NoFile THEN -1 ELSE DEFAULT_BLOCK_SIZE
\* A faulty BlockExists: the existence check always reports absent.
BlockExistsNever(blk, d) == FALSE
BlockExists(blk, d) == BlockFileSize(blk, d) >= 0

\* bsDriver.FileSize / FileExists of a snapshot manifest.
ManifestFileSize(mf, s) == IF mf[s] = NoFile THEN -1 ELSE Len(mf[s][1].Blocks) + 1
ManifestFileExists(mf, s) == mf[s] # NoFile

Offsets == {i * DEFAULT_BLOCK_SIZE : i \in 0..(NBlocks - 1)}

\* ------------------------------------------------------- mergeSnapshotMap
\* A faulty MergeLoop: on equal offsets the entry of the last blocks is
\* kept next to the entry of the delta.
RECURSIVE MergeLoopKeepsBoth(_, _, _, _, _)
MergeLoopKeepsBoth(dBlocks, lBlocks, d, l, acc) ==
    IF d <= Len(dBlocks) /\ l <= Len(lBlocks)
    THEN LET dB == dBlocks[d]
             lB == lBlocks[l]
         IN  IF dB.Offset = lB.Offset
             THEN MergeLoopKeepsBoth(dBlocks, lBlocks, d + 1, l + 1,
                                     Append(Append(acc, dB), lB))
             ELSE IF dB.Offset < lB.Offset
             THEN MergeLoopKeepsBoth(dBlocks, lBlocks, d + 1, l, Append(acc, dB))
             ELSE MergeLoopKeepsBoth(dBlocks, lBlocks, d, l + 1, Append(acc, lB))
    ELSE acc

\* The for loop of mergeSnapshotMap: d and l are the 1-based positions in the
\* delta and the last blocks, acc is sMap.Blocks.  The loop ends as soon as
\* either side is exhausted and returns what it has appended so far.
RECURSIVE MergeLoop(_, _, _, _, _)
MergeLoop(dBlocks, lBlocks, d, l, acc) ==
    IF d <= Len(dBlocks) /\ l <= Len(lBlocks)
    THEN LET dB == dBlocks[d]
             lB == lBlocks[l]
         IN  IF dB.Offset = lB.Offset
             THEN MergeLoop(dBlocks, lBlocks, d + 1, l + 1, Append(acc, dB))
             ELSE IF dB.Offset < lB.Offset
             THEN MergeLoop(dBlocks, lBlocks, d + 1, l, Append(acc, dB))
             ELSE MergeLoop(dBlocks, lBlocks, d, l + 1, Append(acc, lB))
    ELSE acc

mergeSnapshotMap(snapshotId, deltaMap, lastMap) ==
    IF Len(lastMap.Blocks) = 0
    THEN [deltaMap EXCEPT !.Id = snapshotId]
    ELSE [Id |-> snapshotId,
          Blocks |-> MergeLoop(deltaMap.Blocks, lastMap.Blocks, 1, 1, <<>>)]

\* ------------------------------------------------------- the local driver
\* What CompareSnapshot may report: extents of whole blocks, the whole volume
\* as one extent, and an extent of one block and a half; in any order, and
\* with the blockstore's block size or half of it.
Extents ==
    {[Offset |-> o, Size |-> DEFAULT_BLOCK_SIZE] : o \in Offsets}
    \cup {[Offset |-> 0, Size |-> NBlocks * DEFAULT_BLOCK_SIZE]}
    \cup {[Offset |-> 0, Size |-> DEFAULT_BLOCK_SIZE + DEFAULT_BLOCK_SIZE \div 2]}

MappingSeqs == UNION {[1..n -> Extents] : n \in 0..MaxExtents}

Deltas ==
    {[BlockSize |-> DEFAULT_BLOCK_SIZE, Mappings |-> m] : m \in MappingSeqs}
    \cup {[BlockSize |-> DEFAULT_BLOCK_SIZE \div 2, Mappings |-> m] :
            m \in {x \in MappingSeqs : Len(x) <= 1}}

\* The source data of a snapshot: all zeros, or zeros with content X in the
\* second block.  One of the two snapshots is all zeros, the other holds X.
AllZeros == [i \in 0..(NBlocks - 1) |-> "Z"]
OneChanged == [i \in 0..(NBlocks - 1) |-> IF i = 1 THEN "X" ELSE "Z"]
Sources ==
    {[s \in SnapIds |-> IF s = first THEN AllZeros ELSE OneChanged] :
        first \in SnapIds}

\* The offsets the two nested loops of BackupSnapshot visit, in order:
\* for each mapping d, d.Offset + i*BlockSize for i < d.Size / BlockSize.
RECURSIVE ExtentOffsets(_, _, _)
ExtentOffsets(d, blockSize, i) ==
    IF i < d.Size \div blockSize
    THEN <<d.Offset + i * blockSize>> \o ExtentOffsets(d, blockSize, i + 1)
    ELSE <<>>

RECURSIVE LoopOffsets(_, _)
LoopOffsets(mappings, blockSize) ==
    IF mappings = <<>>
    THEN <<>>
    ELSE ExtentOffsets(Head(mappings), blockSize, 0)
         \o LoopOffsets(Tail(mappings), blockSize)

\* ------------------------------------------------------------------- state
VARIABLES
    src,              \* local driver: the data of each snapshot, block by block
    cfg,              \* the Blockstore record persisted at <root>/<id>.cfg
    blocks,           \* remote block objects of the volume: digest -> payload
    manifests,        \* remote snapshot manifests: snapshot id -> SnapshotMap
    pc,               \* where the running BackupSnapshot is
    snapshotId,       \* the argument of the running or the last call
    b,                \* the BlockStore it loaded
    volume,           \* its copy of b.Volumes[volumeId]
    lastSnapshotMap,  \* the manifest it loaded
    delta,            \* what CompareSnapshot reported
    k,                \* the next position in LoopOffsets
    snapshotDeltaMap, \* snapshotDeltaMap.Blocks
    result,           \* how the last call ended
    failedAt,         \* the step at which it failed or was killed
    pre,              \* history: the persisted state when the call started
    writes,           \* history: block Write calls issued by the call
    succeeded,        \* history: snapshots whose latest finished call was ok
    driverOk,         \* history: every delta so far met the driver contract
    done,             \* history: the finished calls, when they are recorded
    mergeDelta,       \* the deltaMap handed to mergeSnapshotMap on its own
    mergeLast,        \* the lastMap handed to mergeSnapshotMap on its own
    mergeOut,         \* what mergeSnapshotMap returned
    driverCfgs,       \* registry: the kinds k whose <root>/<id>-<k>.cfg exists
    recordFile,       \* registry: the Blockstore record <root>/<id>.cfg
    remoteBase,       \* registry: rancher-blockstore/volume exists, by kind
    remoteVols,       \* registry: the remote directory of each volume, by kind
    regCall,          \* registry: the last call, its result and its counts
    regPre,           \* history: the kinds registered when the call started
    registered,       \* history: kinds registered since the last Deregister
    regBlockSize,     \* history: the block size written at registration
    raceBlocks,       \* two runs: the block objects both runs write to
    racePc,           \* two runs: where each run is with its block
    raceBlock,        \* two runs: the block each run has read
    raceInit,         \* history: the block objects before the two runs
    vfsVolumes,       \* vfs driver: the volume config files under d.Root
    mutex,            \* vfs driver: d.mutex
    vfsStack,         \* vfs driver: the calls in progress of each thread
    vfsResult         \* vfs driver: what the last call of each thread returned

store == <<cfg, blocks, manifests>>
locals == <<b, volume, lastSnapshotMap, delta, k, snapshotDeltaMap>>
vars == <<src, cfg, blocks, manifests, pc, snapshotId, b, volume,
          lastSnapshotMap, delta, k, snapshotDeltaMap, result, failedAt,
          pre, writes, succeeded, driverOk, done, mergeDelta, mergeLast,
          mergeOut, driverCfgs, recordFile, remoteBase, remoteVols, regCall,
          regPre, registered, regBlockSize, raceBlocks, racePc, raceBlock,
          raceInit, vfsVolumes, mutex, vfsStack, vfsResult>>
regVars == <<driverCfgs, recordFile, remoteBase, remoteVols, regCall, regPre,
             registered, regBlockSize>>
raceVars == <<raceBlocks, racePc, raceBlock, raceInit>>
vfsVars == <<vfsVolumes, mutex, vfsStack, vfsResult>>
aux == <<done, mergeDelta, mergeLast, mergeOut, regVars, raceVars, vfsVars>>

Kinds == {"vfs", "s3"}          \* the kinds with a registered initializer
Runs == {1, 2}                  \* two runs of BackupSnapshot at the same time
Threads == {"t1", "t2"}               \* the callers of the vfs driver
VfsVolumeIds == {"v1", "v2"}    \* volume ids handed to the vfs driver
VfsSnapIds == {"s1", "s2"}      \* snapshot ids handed to the vfs driver
RegVolumes == {"v1", "v2"}      \* volume ids handed to AddVolume / RemoveVolume

EmptyMap == [Id |-> "", Blocks |-> <<>>]
NoDelta == [BlockSize |-> 0, Mappings |-> <<>>]

NewVolume(last) ==
    [Size |-> NBlocks * DEFAULT_BLOCK_SIZE, Base |-> "", LastSnapshotId |-> last]

NewBlockStore(last) ==
    [Kind |-> "vfs", BlockSize |-> DEFAULT_BLOCK_SIZE,
     Volumes |-> [v \in {VolumeId} |-> NewVolume(last)]]

\* The manifest of snapshot s that lists the blocks `live` of its data.
ManifestOf(data, s, live) ==
    LET idx == [i \in 1..NBlocks |-> i - 1]
        Live(i) == i \in live
        sel == SelectSeq(idx, Live)
    IN  [Id |-> s,
         Blocks |-> [j \in 1..Len(sel) |->
                        [Offset |-> sel[j] * DEFAULT_BLOCK_SIZE,
                         Block |-> Digest(data[sel[j]])]]]

BlocksOf(data, live) ==
    [d \in Digests |->
        IF \E i \in live : Digest(data[i]) = d
        THEN File(CHOOSE c \in Contents : Digest(c) = d)
        ELSE NoFile]

\* The store after Register and AddVolume: no last snapshot, no object.
FreshStore ==
    /\ cfg = NewBlockStore("")
    /\ blocks = [d \in Digests |-> NoFile]
    /\ manifests = [s \in SnapIds |-> NoFile]

\* The stores a call can find on disk and in the blockstore: a volume just
\* added; a volume whose record names s1 as its last snapshot, with the
\* manifest of s1 and its blocks in place; and the same record with the
\* manifest missing.
AnyStore ==
    \/ FreshStore
    \/ \E live \in SUBSET (0..(NBlocks - 1)) :
       /\ cfg = NewBlockStore("s1")
       /\ blocks = BlocksOf(src["s1"], live)
       /\ manifests = [s \in SnapIds |->
                         IF s = "s1"
                         THEN File(ManifestOf(src["s1"], "s1", live))
                         ELSE NoFile]
    \/ /\ cfg = NewBlockStore("s1")
       /\ blocks = [d \in Digests |-> NoFile]
       /\ manifests = [s \in SnapIds |-> NoFile]

\* No call is running: the locals of BackupSnapshot hold nothing.
NoLocals(bv, vv, lv, dv, kv, sv) ==
    /\ bv = NewBlockStore("")
    /\ vv = NewVolume("")
    /\ lv = EmptyMap
    /\ dv = NoDelta
    /\ kv = 1
    /\ sv = <<>>

InitCall ==
    /\ pc = "idle"
    /\ snapshotId = ""
    /\ NoLocals(b, volume, lastSnapshotMap, delta, k, snapshotDeltaMap)
    /\ result = "none"
    /\ failedAt = ""
    /\ writes = 0
    /\ pre = [cfg |-> cfg, blocks |-> blocks, manifests |-> manifests]
    /\ succeeded = {}
    /\ driverOk = TRUE
    /\ done = <<>>

NoMerge ==
    /\ mergeDelta = EmptyMap
    /\ mergeLast = EmptyMap
    /\ mergeOut = NoFile

\* A remote volume directory: whether it exists, and whether volume.cfg is
\* in it.
NoRemoteVolume == [dir |-> FALSE, cfg |-> FALSE]

\* The blockstore each kind of driver reaches, empty.
NoRemoteBase == [kind \in Kinds |-> FALSE]
NoRemoteVolumes == [kind \in Kinds |-> [v \in RegVolumes |-> NoRemoteVolume]]

RegFiles(dc, rc, rb, rv) ==
    [driverCfgs |-> dc, record |-> rc, remoteBase |-> rb, remoteVols |-> rv]

\* A call: its arguments, its result, the calls of the initializer and of
\* MkDirAll it made, and whether it changed the record, and any file or
\* remote object.
NoCall ==
    [op |-> "none", arg |-> "", result |-> "", ctor |-> 0, mkdir |-> 0,
     wroteRecord |-> FALSE, touched |-> FALSE]

\* Nothing is registered under <root> and the blockstore is empty.
NoRegistry ==
    /\ driverCfgs = {}
    /\ recordFile = NoFile
    /\ remoteBase = NoRemoteBase
    /\ remoteVols = NoRemoteVolumes
    /\ regCall = NoCall
    /\ regPre = {}
    /\ registered = {}
    /\ regBlockSize = 0

\* No run of the block loop is racing another.
NoRace ==
    /\ raceBlocks = [d \in Digests |-> NoFile]
    /\ racePc = [r \in Runs |-> "idle"]
    /\ raceBlock = [r \in Runs |-> "Z"]
    /\ raceInit = [d \in Digests |-> NoFile]

\* The vfs driver as Init returns it: no volume, the mutex free, no call.
NoVfs ==
    /\ vfsVolumes = [v \in VfsVolumeIds |-> NoFile]
    /\ mutex = [writer |-> FALSE, readers |-> 0, waiting |-> FALSE]
    /\ vfsStack = [t \in Threads |-> <<>>]
    /\ vfsResult = [t \in Threads |-> "none"]

Init ==
    /\ src \in Sources
    /\ FreshStore
    /\ InitCall
    /\ NoMerge
    /\ NoRegistry
    /\ NoRace
    /\ NoVfs

InitStored ==
    /\ src \in Sources
    /\ AnyStore
    /\ InitCall
    /\ NoMerge
    /\ NoRegistry
    /\ NoRace
    /\ NoVfs

\* ---------------------------------------------------------- BackupSnapshot
\* The contract of CompareSnapshot: mappings ascending by offset and not
\* overlapping, offsets and sizes whole multiples of the block size.
WellFormed(dl) ==
    /\ \A i \in 1..Len(dl.Mappings) :
          /\ dl.Mappings[i].Offset % dl.BlockSize = 0
          /\ dl.Mappings[i].Size % dl.BlockSize = 0
          /\ dl.Mappings[i].Size > 0
    /\ \A i \in 1..(Len(dl.Mappings) - 1) :
          dl.Mappings[i].Offset + dl.Mappings[i].Size <= dl.Mappings[i + 1].Offset

\* A call of BackupSnapshot(root, s, volumeId, blockstoreId) starts: the
\* history of the call is reset.
Enter(s) ==
    /\ pc = "idle"
    /\ snapshotId' = s
    /\ pre' = [cfg |-> cfg, blocks |-> blocks, manifests |-> manifests]
    /\ writes' = 0

\* The call of snapshot s returns res at `step`; its locals are gone.
Exit(s, res, step) ==
    /\ pc' = "idle"
    /\ result' = res
    /\ failedAt' = step
    /\ succeeded' = IF res = "ok" THEN succeeded \cup {s} ELSE succeeded \ {s}
    /\ NoLocals(b', volume', lastSnapshotMap', delta', k', snapshotDeltaMap')

\* A faulty Begin: the stale manifest of the snapshot is removed before the
\* delta is asked for.
BeginRemovesManifest(s) ==
    /\ Enter(s)
    /\ b' = cfg
    /\ volume' = cfg.Volumes[VolumeId]
    /\ LET lastSnapshotId == cfg.Volumes[VolumeId].LastSnapshotId
       IN  IF lastSnapshotId # ""
           THEN /\ ManifestFileSize(manifests, lastSnapshotId) >= 0
                /\ lastSnapshotMap' = manifests[lastSnapshotId][1]
           ELSE lastSnapshotMap' = EmptyMap
    /\ manifests' = [manifests EXCEPT ![s] = NoFile]
    /\ pc' = "compare"
    /\ result' = "running"
    /\ failedAt' = ""
    /\ UNCHANGED <<src, cfg, blocks, delta, k, snapshotDeltaMap, succeeded,
                   driverOk>>

\* A faulty Begin: the manifest of the last snapshot is not checked; a
\* missing one is taken as empty.
BeginUnchecked(s) ==
    /\ Enter(s)
    /\ b' = cfg
    /\ volume' = cfg.Volumes[VolumeId]
    /\ LET lastSnapshotId == cfg.Volumes[VolumeId].LastSnapshotId
       IN  IF lastSnapshotId # "" /\ ManifestFileSize(manifests, lastSnapshotId) >= 0
           THEN lastSnapshotMap' = manifests[lastSnapshotId][1]
           ELSE lastSnapshotMap' = EmptyMap
    /\ pc' = "compare"
    /\ result' = "running"
    /\ failedAt' = ""
    /\ UNCHANGED <<src, store, delta, k, snapshotDeltaMap, succeeded, driverOk>>

\* A faulty Begin: the record is saved with last_snapshot_id advanced to the
\* snapshot before anything is uploaded.
BeginAdvancesPointer(s) ==
    /\ Enter(s)
    /\ b' = cfg
    /\ volume' = cfg.Volumes[VolumeId]
    /\ LET lastSnapshotId == cfg.Volumes[VolumeId].LastSnapshotId
       IN  IF lastSnapshotId # ""
           THEN /\ ManifestFileSize(manifests, lastSnapshotId) >= 0
                /\ lastSnapshotMap' = manifests[lastSnapshotId][1]
           ELSE lastSnapshotMap' = EmptyMap
    /\ cfg' = [cfg EXCEPT !.Volumes[VolumeId].LastSnapshotId = s]
    /\ pc' = "compare"
    /\ result' = "running"
    /\ failedAt' = ""
    /\ UNCHANGED <<src, blocks, manifests, delta, k, snapshotDeltaMap,
                   succeeded, driverOk>>

\* LoadConfig, GetBlockStoreDriver, the volume lookup and the load of the
\* last snapshot's manifest all succeed.
Begin(s) ==
    /\ Enter(s)
    /\ b' = cfg
    /\ volume' = cfg.Volumes[VolumeId]
    /\ LET lastSnapshotId == cfg.Volumes[VolumeId].LastSnapshotId
       IN  IF lastSnapshotId # ""
           THEN /\ ManifestFileSize(manifests, lastSnapshotId) >= 0
                /\ lastSnapshotMap' = manifests[lastSnapshotId][1]
           ELSE lastSnapshotMap' = EmptyMap
    /\ pc' = "compare"
    /\ result' = "running"
    /\ failedAt' = ""
    /\ UNCHANGED <<src, store, delta, k, snapshotDeltaMap, succeeded, driverOk>>

\* The record names a last snapshot whose manifest FileSize reports absent.
BeginNotFound(s) ==
    /\ Enter(s)
    /\ cfg.Volumes[VolumeId].LastSnapshotId # ""
    /\ ManifestFileSize(manifests, cfg.Volumes[VolumeId].LastSnapshotId) < 0
    /\ Exit(s, "err", "notfound")
    /\ UNCHANGED <<src, store, driverOk>>

\* LoadConfig, GetBlockStoreDriver or the Read of the manifest fails.
BeginFail(s) ==
    /\ Enter(s)
    /\ Exit(s, "err", "load")
    /\ UNCHANGED <<src, store, driverOk>>

\* A faulty Compare: the block size of the delta is not compared with the
\* block size of the blockstore.
CompareUnchecked(dl) ==
    /\ pc = "compare"
    /\ delta' = dl
    /\ pc' = IF LoopOffsets(dl.Mappings, dl.BlockSize) = <<>>
             THEN "merge" ELSE "loop"
    /\ driverOk' = (driverOk /\ WellFormed(dl))
    /\ UNCHANGED <<b, volume, lastSnapshotMap, k, snapshotDeltaMap,
                   result, failedAt, succeeded>>
    /\ UNCHANGED <<src, store, snapshotId, pre, writes>>

\* CompareSnapshot reports dl; the block sizes are compared.
Compare(dl) ==
    /\ pc = "compare"
    /\ IF dl.BlockSize # b.BlockSize
       THEN /\ Exit(snapshotId, "err", "blocksize")
            /\ UNCHANGED driverOk
       ELSE /\ delta' = dl
            /\ pc' = IF LoopOffsets(dl.Mappings, dl.BlockSize) = <<>>
                     THEN "merge" ELSE "loop"
            /\ driverOk' = (driverOk /\ WellFormed(dl))
            /\ UNCHANGED <<b, volume, lastSnapshotMap, k, snapshotDeltaMap,
                           result, failedAt, succeeded>>
    /\ UNCHANGED <<src, store, snapshotId, pre, writes>>

CompareFail ==
    /\ pc = "compare"
    /\ Exit(snapshotId, "err", "compare")
    /\ UNCHANGED <<src, store, snapshotId, pre, writes, driverOk>>

\* The block the loop is at: its offset, what ReadSnapshot reads there, and
\* its checksum.
CurOffset == LoopOffsets(delta.Mappings, delta.BlockSize)[k]
CurBlock == src[snapshotId][CurOffset \div DEFAULT_BLOCK_SIZE]
CurChecksum == Digest(CurBlock)

\* A faulty BlockStep: the mapping of a new block is appended but the
\* block object is not written.
BlockStepNoWrite(blk, dmap, offset, block) ==
    LET checksum == Digest(block)
    IN  IF BlockExists(blk, checksum)
        THEN [blocks |-> blk, map |-> dmap, wrote |-> 0]
        ELSE [blocks |-> blk,
              map |-> Append(dmap, [Offset |-> offset, Block |-> checksum]),
              wrote |-> 0]

\* The body of the inner loop once the block is read, every call
\* succeeding: the block objects and the delta map it leaves, and the Write
\* calls it issued.
BlockStep(blk, dmap, offset, block) ==
    LET checksum == Digest(block)
    IN  IF BlockExists(blk, checksum)
        THEN [blocks |-> blk, map |-> dmap, wrote |-> 0]
        ELSE [blocks |-> [blk EXCEPT ![checksum] = File(block)],
              map |-> Append(dmap, [Offset |-> offset, Block |-> checksum]),
              wrote |-> 1]

\* One iteration of the inner loop, every call succeeding.
BackupBlock ==
    /\ pc = "loop"
    /\ LET r == BlockStep(blocks, snapshotDeltaMap, CurOffset, CurBlock)
       IN  /\ blocks' = r.blocks
           /\ snapshotDeltaMap' = r.map
           /\ writes' = writes + r.wrote
    /\ k' = k + 1
    /\ pc' = IF k + 1 > Len(LoopOffsets(delta.Mappings, delta.BlockSize))
             THEN "merge" ELSE "loop"
    /\ UNCHANGED <<src, cfg, manifests, snapshotId, b, volume, lastSnapshotMap,
                   delta, result, failedAt, pre, succeeded, driverOk>>

ReadSnapshotFail ==
    /\ pc = "loop"
    /\ Exit(snapshotId, "err", "read")
    /\ UNCHANGED <<src, store, snapshotId, pre, writes, driverOk>>

MkDirAllFail ==
    /\ pc = "loop"
    /\ ~BlockExists(blocks, CurChecksum)
    /\ Exit(snapshotId, "err", "mkdir")
    /\ UNCHANGED <<src, store, snapshotId, pre, writes, driverOk>>

\* Write of a block fails: the object is absent or fully present.
WriteBlockFail ==
    /\ pc = "loop"
    /\ ~BlockExists(blocks, CurChecksum)
    /\ blocks' \in {blocks, [blocks EXCEPT ![CurChecksum] = File(CurBlock)]}
    /\ writes' = writes + 1
    /\ Exit(snapshotId, "err", "write")
    /\ UNCHANGED <<src, cfg, manifests, snapshotId, pre, driverOk>>

\* FileExists of the target manifest, and RemoveAll when it is there.
RemoveStale ==
    /\ pc = "merge"
    /\ manifests' = IF ManifestFileExists(manifests, snapshotId)
                    THEN [manifests EXCEPT ![snapshotId] = NoFile]
                    ELSE manifests
    /\ pc' = "write"
    /\ UNCHANGED <<src, cfg, blocks, snapshotId, locals, result, failedAt, pre,
                   writes, succeeded, driverOk>>

\* RemoveAll fails: the manifest is still there or gone.
RemoveStaleFail ==
    /\ pc = "merge"
    /\ ManifestFileExists(manifests, snapshotId)
    /\ manifests' \in {manifests, [manifests EXCEPT ![snapshotId] = NoFile]}
    /\ Exit(snapshotId, "err", "remove")
    /\ UNCHANGED <<src, cfg, blocks, snapshotId, pre, writes, driverOk>>

\* The manifest BackupSnapshot marshals.
SnapshotMapOf ==
    mergeSnapshotMap(snapshotId, [Id |-> "", Blocks |-> snapshotDeltaMap],
                     lastSnapshotMap)

WriteManifest ==
    /\ pc = "write"
    /\ manifests' = [manifests EXCEPT ![snapshotId] = File(SnapshotMapOf)]
    /\ pc' = "save"
    /\ UNCHANGED <<src, cfg, blocks, snapshotId, locals, result, failedAt, pre,
                   writes, succeeded, driverOk>>

\* Write of the manifest fails: the object is absent or fully present.
WriteManifestFail ==
    /\ pc = "write"
    /\ manifests' \in {manifests,
                       [manifests EXCEPT ![snapshotId] = File(SnapshotMapOf)]}
    /\ Exit(snapshotId, "err", "writemanifest")
    /\ UNCHANGED <<src, cfg, blocks, snapshotId, pre, writes, driverOk>>

\* volume.LastSnapshotId = snapshotId; SaveConfig(configFile, b).  volume is
\* the copy taken out of the map b.Volumes, so the record that is saved is b
\* as it was loaded.
SavedRecord ==
    LET updated == [volume EXCEPT !.LastSnapshotId = snapshotId]
    IN  b

SaveConfig ==
    /\ pc = "save"
    /\ cfg' = SavedRecord
    /\ Exit(snapshotId, "ok", "")
    /\ UNCHANGED <<src, blocks, manifests, snapshotId, pre, writes, driverOk>>

\* SaveConfig fails: the record file is as before or rewritten.
SaveConfigFail ==
    /\ pc = "save"
    /\ cfg' \in {cfg, SavedRecord}
    /\ Exit(snapshotId, "err", "save")
    /\ UNCHANGED <<src, blocks, manifests, snapshotId, pre, writes, driverOk>>

\* The process is killed between two calls of the drivers.
Kill ==
    /\ pc # "idle"
    /\ Exit(snapshotId, "killed", pc)
    /\ UNCHANGED <<src, store, snapshotId, pre, writes, driverOk>>

Next ==
    \/ \E s \in SnapIds : Begin(s) /\ UNCHANGED aux
    \/ \E s \in SnapIds : BeginFail(s) /\ UNCHANGED aux
    \/ \E dl \in Deltas : Compare(dl) /\ UNCHANGED aux
    \/ CompareFail /\ UNCHANGED aux
    \/ BackupBlock /\ UNCHANGED aux
    \/ ReadSnapshotFail /\ UNCHANGED aux
    \/ MkDirAllFail /\ UNCHANGED aux
    \/ WriteBlockFail /\ UNCHANGED aux
    \/ RemoveStale /\ UNCHANGED aux
    \/ RemoveStaleFail /\ UNCHANGED aux
    \/ WriteManifest /\ UNCHANGED aux
    \/ WriteManifestFail /\ UNCHANGED aux
    \/ SaveConfig /\ UNCHANGED aux
    \/ SaveConfigFail /\ UNCHANGED aux
    \/ Kill /\ UNCHANGED aux

\* Calls of BackupSnapshot on a volume just added.
Spec == Init /\ [][Next]_vars

NextStored ==
    \/ Next
    \/ \E s \in SnapIds : BeginNotFound(s) /\ UNCHANGED aux

\* Calls of BackupSnapshot on any store it can find.
SpecStored == InitStored /\ [][NextStored]_vars

\* ------------------------------------------------- one snapshot, repeated
\* BackupSnapshot of one snapshot is called up to MaxCalls times in a row, the
\* source unchanged: CompareSnapshot reports the same delta every time.  Each
\* finished call is recorded in done.
CallRecord ==
    [snapshotId |-> snapshotId', delta |-> delta, result |-> result',
     failedAt |-> failedAt', pre |-> pre', writes |-> writes',
     post |-> [cfg |-> cfg', blocks |-> blocks', manifests |-> manifests']]

Record ==
    /\ done' = IF pc' = "idle" THEN Append(done, CallRecord) ELSE done
    /\ UNCHANGED <<mergeDelta, mergeLast, mergeOut, regVars, raceVars, vfsVars>>

SameCall(s) ==
    /\ Len(done) < MaxCalls
    /\ IF done = <<>> THEN TRUE ELSE s = done[1].snapshotId

SameDelta(dl) == \A i \in 1..Len(done) : done[i].delta \in {NoDelta, dl}

NextRetry ==
    \/ \E s \in SnapIds : SameCall(s) /\ Begin(s) /\ Record
    \/ \E s \in SnapIds : SameCall(s) /\ BeginFail(s) /\ Record
    \/ \E dl \in Deltas : SameDelta(dl) /\ Compare(dl) /\ Record
    \/ CompareFail /\ Record
    \/ BackupBlock /\ Record
    \/ ReadSnapshotFail /\ Record
    \/ MkDirAllFail /\ Record
    \/ WriteBlockFail /\ Record
    \/ RemoveStale /\ Record
    \/ RemoveStaleFail /\ Record
    \/ WriteManifest /\ Record
    \/ WriteManifestFail /\ Record
    \/ SaveConfig /\ Record
    \/ SaveConfigFail /\ Record
    \/ Kill /\ Record

SpecRetry == Init /\ [][NextRetry]_vars

\* A whole call of BackupSnapshot(s) that nothing interrupts, CompareSnapshot
\* reporting dl: the store it leaves when started on the store st.
RECURSIVE RunLoop(_, _, _, _)
RunLoop(blk, dmap, offsets, data) ==
    IF offsets = <<>>
    THEN [blocks |-> blk, map |-> dmap]
    ELSE LET r == BlockStep(blk, dmap, Head(offsets),
                            data[Head(offsets) \div DEFAULT_BLOCK_SIZE])
         IN  RunLoop(r.blocks, r.map, Tail(offsets), data)

FullRun(st, s, dl) ==
    LET lastSnapshotId == st.cfg.Volumes[VolumeId].LastSnapshotId
        lastMap == IF lastSnapshotId # "" THEN st.manifests[lastSnapshotId][1]
                   ELSE EmptyMap
        loop == RunLoop(st.blocks, <<>>, LoopOffsets(dl.Mappings, dl.BlockSize),
                        src[s])
        map == mergeSnapshotMap(s, [Id |-> "", Blocks |-> loop.map], lastMap)
    IN  [cfg |-> st.cfg, blocks |-> loop.blocks,
         manifests |-> [st.manifests EXCEPT ![s] = File(map)]]

\* The steps of a call that returns ok add up to FullRun.
FullRunAgrees ==
    \A i \in 1..Len(done) :
        done[i].result = "ok" =>
            done[i].post = FullRun(done[i].pre, done[i].snapshotId, done[i].delta)

\* ------------------------------------------- mergeSnapshotMap on its own
\* Every sequence of block mappings strictly ascending by offset.
AscendingMaps(id) ==
    {ManifestOf(data, id, live) :
        data \in [0..(NBlocks - 1) -> Contents], live \in SUBSET (0..(NBlocks - 1))}

InitMerge ==
    /\ src \in Sources
    /\ FreshStore
    /\ InitCall
    /\ mergeDelta \in AscendingMaps("")
    /\ mergeLast \in AscendingMaps("s1")
    /\ mergeOut = NoFile
    /\ NoRegistry
    /\ NoRace
    /\ NoVfs

Merge ==
    /\ mergeOut = NoFile
    /\ mergeOut' = File(mergeSnapshotMap("s2", mergeDelta, mergeLast))
    /\ UNCHANGED <<src, store, pc, snapshotId, locals, result, failedAt, pre,
                   writes, succeeded, driverOk, done, mergeDelta, mergeLast,
                   regVars, raceVars, vfsVars>>

NextMerge == Merge

SpecMerge == InitMerge /\ [][NextMerge]_vars

\* ------------------------------------------------------------ the registry
\* Register, Deregister, AddVolume, RemoveVolume and BackupSnapshot called one
\* after the other on one <root> and one blockstore id.  Each call runs to
\* its return; f names the call inside it that fails, "none" when none does.
Out(files, res, ctor, mkdir) ==
    [files |-> files, result |-> res, ctor |-> ctor, mkdir |-> mkdir]

\* A faulty AlreadyRegistered: os.Stat never finds the driver config file.
NeverRegistered(cfgs, kind) == FALSE
\* os.Stat(<root>/<id>-<kind>.cfg) succeeds.
AlreadyRegistered(cfgs, kind) == kind \in cfgs

\* A faulty RolledBack: the driver config file is left in place.
NotRolledBack(cfgs, kind) == cfgs
\* removeDriverConfigFile: rm -f <root>/<id>-<kind>.cfg.
RolledBack(cfgs, kind) == cfgs \ {kind}

\* A faulty WithVolume: the record that is saved is built anew and its
\* block size is left at zero.
WithVolumeFresh(bs, v, vol) ==
    [Kind |-> bs.Kind, BlockSize |-> 0,
     Volumes |-> [x \in (DOMAIN bs.Volumes) \cup {v} |->
                    IF x = v THEN vol ELSE bs.Volumes[x]]]
\* b.Volumes[volumeId] = volume
WithVolume(bs, v, vol) ==
    [bs EXCEPT !.Volumes = [x \in (DOMAIN bs.Volumes) \cup {v} |->
                              IF x = v THEN vol ELSE bs.Volumes[x]]]
\* delete(b.Volumes, volumeId)
WithoutVolume(bs, v) ==
    [bs EXCEPT !.Volumes = [x \in (DOMAIN bs.Volumes) \ {v} |-> bs.Volumes[x]]]

\* The record Register writes.
RegisteredBlockStore(kind) ==
    [Kind |-> kind, BlockSize |-> DEFAULT_BLOCK_SIZE,
     Volumes |-> [x \in {} |-> NewVolume("")]]

RegisterFailures == {"none", "ctor", "ctor-wrote", "mkdir", "save"}

\* Register(root, kind, id, config).  The initializer of the kind writes the
\* driver config file; when it fails it has written the file or not.
RegisterOutcome(kind, f) ==
    LET withCfg == driverCfgs \cup {kind}
    IN  IF AlreadyRegistered(driverCfgs, kind)
        THEN Out(RegFiles(driverCfgs, recordFile, remoteBase, remoteVols),
                 "already-exists", 0, 0)
        ELSE IF f = "ctor"
        THEN Out(RegFiles(driverCfgs, recordFile, remoteBase, remoteVols),
                 "err-ctor", 1, 0)
        ELSE IF f = "ctor-wrote"
        THEN Out(RegFiles(withCfg, recordFile, remoteBase, remoteVols),
                 "err-ctor", 1, 0)
        ELSE IF f = "mkdir"
        THEN Out(RegFiles(RolledBack(withCfg, kind), recordFile, remoteBase,
                          remoteVols),
                 "err-mkdir", 1, 1)
        ELSE IF f = "save"
        THEN Out(RegFiles(withCfg, recordFile,
                          [remoteBase EXCEPT ![kind] = TRUE], remoteVols),
                 "err-save", 1, 1)
        ELSE Out(RegFiles(withCfg, File(RegisteredBlockStore(kind)),
                          [remoteBase EXCEPT ![kind] = TRUE], remoteVols),
                 "ok", 1, 1)

\* Deregister(root, kind, id): rm -f of both files.
DeregisterOutcome(kind) ==
    Out(RegFiles(driverCfgs \ {kind}, NoFile, remoteBase, remoteVols),
        "ok", 0, 0)

AddVolumeFailures == {"none", "load", "driver", "mkdir", "save", "write"}

\* AddVolume(root, id, volumeId, base, size).
AddVolumeOutcome(v, f) ==
    LET same == RegFiles(driverCfgs, recordFile, remoteBase, remoteVols)
    IN  IF recordFile = NoFile \/ f = "load"
        THEN Out(same, "err-load", 0, 0)
        ELSE
        LET bs == recordFile[1]
            made == [remoteVols EXCEPT ![bs.Kind][v].dir = TRUE]
            added == File(WithVolume(bs, v, NewVolume("")))
        IN  IF v \in DOMAIN bs.Volumes
            THEN Out(same, "already-exists", 0, 0)
            ELSE IF bs.Kind \notin driverCfgs \/ f = "driver"
            THEN Out(same, "err-driver", 1, 0)
            ELSE IF f = "mkdir"
            THEN Out(same, "err-mkdir", 1, 1)
            ELSE IF f = "save"
            THEN Out(RegFiles(driverCfgs, recordFile, remoteBase, made),
                     "err-save", 1, 1)
            ELSE IF made[bs.Kind][v].cfg
            THEN Out(RegFiles(driverCfgs, added, remoteBase, made),
                     "already-exists", 1, 1)
            ELSE IF f = "write"
            THEN Out(RegFiles(driverCfgs, added, remoteBase, made),
                     "err-write", 1, 1)
            ELSE Out(RegFiles(driverCfgs, added, remoteBase,
                              [made EXCEPT ![bs.Kind][v].cfg = TRUE]),
                     "ok", 1, 1)

RemoveVolumeFailures == {"none", "load", "driver", "remove", "save"}

\* RemoveVolume(root, id, volumeId).
RemoveVolumeOutcome(v, f) ==
    LET same == RegFiles(driverCfgs, recordFile, remoteBase, remoteVols)
    IN  IF recordFile = NoFile \/ f = "load"
        THEN Out(same, "err-load", 0, 0)
        ELSE
        LET bs == recordFile[1]
            removed == [remoteVols EXCEPT ![bs.Kind][v] = NoRemoteVolume]
        IN  IF v \notin DOMAIN bs.Volumes
            THEN Out(same, "not-found", 0, 0)
            ELSE IF bs.Kind \notin driverCfgs \/ f = "driver"
            THEN Out(same, "err-driver", 1, 0)
            ELSE IF f = "remove"
            THEN Out(same, "err-remove", 1, 0)
            ELSE IF f = "save"
            THEN Out(RegFiles(driverCfgs, recordFile, remoteBase, removed),
                     "err-save", 1, 0)
            ELSE Out(RegFiles(driverCfgs, File(WithoutVolume(bs, v)),
                              remoteBase, removed),
                     "ok", 1, 0)

BackupFailures == {"none", "io"}

\* BackupSnapshot(root, snapshotId, volumeId, blockstoreId) as the registry
\* sees it: a call that returns nil has written objects under the directory
\* of the volume and has saved the record b it loaded.
BackupOutcome(v, f) ==
    LET same == RegFiles(driverCfgs, recordFile, remoteBase, remoteVols)
    IN  IF recordFile = NoFile
        THEN Out(same, "err-load", 0, 0)
        ELSE
        LET bs == recordFile[1]
        IN  IF bs.Kind \notin driverCfgs
            THEN Out(same, "err-driver", 1, 0)
            ELSE IF v \notin DOMAIN bs.Volumes
            THEN Out(same, "not-found", 1, 0)
            ELSE IF f = "io"
            THEN Out(same, "err-io", 1, 0)
            ELSE Out(RegFiles(driverCfgs, File(bs), remoteBase,
                              [remoteVols EXCEPT ![bs.Kind][v].dir = TRUE]),
                     "ok", 1, 1)

\* The call op(arg) returns out.
Returns(op, arg, out) ==
    /\ driverCfgs' = out.files.driverCfgs
    /\ recordFile' = out.files.record
    /\ remoteBase' = out.files.remoteBase
    /\ remoteVols' = out.files.remoteVols
    /\ regCall' = [op |-> op, arg |-> arg, result |-> out.result,
                   ctor |-> out.ctor, mkdir |-> out.mkdir,
                   wroteRecord |-> out.files.record # recordFile,
                   touched |-> out.files # RegFiles(driverCfgs, recordFile,
                                                    remoteBase, remoteVols)]
    /\ regPre' = registered
    /\ UNCHANGED <<src, store, pc, snapshotId, locals, result, failedAt, pre,
                   writes, succeeded, driverOk, done, mergeDelta, mergeLast,
                   mergeOut, raceVars, vfsVars>>

Register(kind, f) ==
    LET out == RegisterOutcome(kind, f)
    IN  /\ Returns("Register", kind, out)
        /\ registered' = IF out.result = "ok" THEN registered \cup {kind}
                         ELSE registered
        /\ regBlockSize' = IF out.result = "ok" /\ registered = {}
                           THEN out.files.record[1].BlockSize
                           ELSE regBlockSize

Deregister(kind) ==
    /\ Returns("Deregister", kind, DeregisterOutcome(kind))
    /\ registered' = {}
    /\ UNCHANGED regBlockSize

AddVolume(v, f) ==
    /\ Returns("AddVolume", v, AddVolumeOutcome(v, f))
    /\ UNCHANGED <<registered, regBlockSize>>

RemoveVolume(v, f) ==
    /\ Returns("RemoveVolume", v, RemoveVolumeOutcome(v, f))
    /\ UNCHANGED <<registered, regBlockSize>>

BackupRecord(v, f) ==
    /\ Returns("BackupSnapshot", v, BackupOutcome(v, f))
    /\ UNCHANGED <<registered, regBlockSize>>

NextRegistry ==
    \/ \E kind \in Kinds, f \in RegisterFailures : Register(kind, f)
    \/ \E kind \in Kinds : Deregister(kind)
    \/ \E v \in RegVolumes, f \in AddVolumeFailures : AddVolume(v, f)
    \/ \E v \in RegVolumes, f \in RemoveVolumeFailures : RemoveVolume(v, f)
    \/ \E v \in RegVolumes, f \in BackupFailures : BackupRecord(v, f)

\* Nothing is registered; the source data plays no part in the registry.
InitRegistry ==
    /\ Init
    /\ src["s1"] = AllZeros

SpecRegistry == InitRegistry /\ [][NextRegistry]_vars

\* ------------------------------------------------- two runs, one blockstore
\* Two runs of BackupSnapshot are in the body of the block loop at the same
\* time, each with the block it has read: FileSize, MkDirAll, Write.  Write
\* is atomic: the object is absent or fully present.
RaceRest == <<src, store, pc, snapshotId, locals, result, failedAt, pre, writes,
              succeeded, driverOk, done, mergeDelta, mergeLast, mergeOut,
              regVars, vfsVars>>

\* A faulty BlockObject: every block goes to the object of the zero block.
BlockObjectFixed(block) == Digest("Z")
\* The object a block is looked up at and written to: its checksum names it.
BlockObject(block) == Digest(block)

InitRace ==
    /\ src \in Sources /\ src["s1"] = AllZeros
    /\ FreshStore /\ InitCall /\ NoMerge /\ NoRegistry /\ NoVfs
    /\ raceInit \in [Digests -> {NoFile}] \cup
                    {BlocksOf(data, {0}) : data \in [{0} -> Contents]} \cup
                    {BlocksOf([i \in {0, 1} |-> IF i = 0 THEN "Z" ELSE "X"], {0, 1})}
    /\ raceBlocks = raceInit
    /\ raceBlock \in [Runs -> Contents]
    /\ racePc = [r \in Runs |-> "check"]

\* if bsDriver.FileSize(path, fileName) >= 0 { continue }
RaceCheck(r) ==
    /\ racePc[r] = "check"
    /\ racePc' = [racePc EXCEPT ![r] =
                    IF BlockExists(raceBlocks, BlockObject(raceBlock[r]))
                    THEN "skipped" ELSE "mkdir"]
    /\ UNCHANGED <<raceBlocks, raceBlock, raceInit, RaceRest>>

\* bsDriver.MkDirAll(path)
RaceMkDirAll(r) ==
    /\ racePc[r] = "mkdir"
    /\ racePc' = [racePc EXCEPT ![r] = "write"]
    /\ UNCHANGED <<raceBlocks, raceBlock, raceInit, RaceRest>>

\* bsDriver.Write(block, path, fileName)
RaceWrite(r) ==
    /\ racePc[r] = "write"
    /\ raceBlocks' = [raceBlocks EXCEPT ![BlockObject(raceBlock[r])] =
                        File(raceBlock[r])]
    /\ racePc' = [racePc EXCEPT ![r] = "written"]
    /\ UNCHANGED <<raceBlock, raceInit, RaceRest>>

\* MkDirAll or Write returns an error: the run returns.  A failed Write has
\* left the object absent or fully present.
RaceFail(r) ==
    /\ racePc[r] \in {"mkdir", "write"}
    /\ raceBlocks' \in
          {raceBlocks} \cup
          (IF racePc[r] = "write"
           THEN {[raceBlocks EXCEPT ![BlockObject(raceBlock[r])] =
                    File(raceBlock[r])]}
           ELSE {})
    /\ racePc' = [racePc EXCEPT ![r] = "failed"]
    /\ UNCHANGED <<raceBlock, raceInit, RaceRest>>

NextRace ==
    \/ \E r \in Runs : RaceCheck(r)
    \/ \E r \in Runs : RaceMkDirAll(r)
    \/ \E r \in Runs : RaceWrite(r)
    \/ \E r \in Runs : RaceFail(r)

SpecRace == InitRace /\ [][NextRace]_vars

\* ----------------------------------------------------------- the vfs driver
\* The vfs driver of package vfs: volumes with their snapshots in config
\* files under d.Root, and d.mutex around every operation.  A call is a frame
\* on the stack of its thread; GetSnapshotInfo called from ListSnapshot is a
\* frame on top of the frame of ListSnapshot.  sync.RWMutex is not reentrant:
\* Lock waits until no one holds the mutex, the caller included; while a
\* writer waits in Lock for the readers to leave, RLock lets no new reader in.
VfsRest == <<src, store, pc, snapshotId, locals, result, failedAt, pre, writes,
             succeeded, driverOk, done, mergeDelta, mergeLast, mergeOut,
             regVars, raceVars>>

Frame(op, id, vol) ==
    [op |-> op, pc |-> "lock", id |-> id, vol |-> vol, volumeIDs |-> <<>>,
     snapshots |-> {}, err |-> FALSE]

\* The frame of an operation that starts with d.mutex.RLock().
ReadOps == {"ListVolume", "GetVolumeInfo"}
ReadFrame(op, id) == [Frame(op, id, "") EXCEPT !.pc = "rlock"]

Top(t) == vfsStack[t][Len(vfsStack[t])]
InCall(t, op, at) ==
    /\ vfsStack[t] # <<>>
    /\ Top(t).op = op
    /\ Top(t).pc = at
SetTop(t, f) == [vfsStack EXCEPT ![t] = [@ EXCEPT ![Len(@)] = f]]
Returning(f, failed) == [f EXCEPT !.pc = "return", !.err = failed]

\* d.mutex.Lock() can go through.
MutexFree == ~mutex.writer /\ mutex.readers = 0

\* A thread with no call in progress calls an operation of the driver.
Call(t, f) ==
    /\ vfsStack[t] = <<>>
    /\ vfsStack' = [vfsStack EXCEPT ![t] = <<f>>]
    /\ vfsResult' = [vfsResult EXCEPT ![t] = "running"]
    /\ UNCHANGED <<vfsVolumes, mutex, VfsRest>>

CreateVolume(t, id) == Call(t, Frame("CreateVolume", id, ""))
CreateSnapshot(t, id, vol) == Call(t, Frame("CreateSnapshot", id, vol))
GetSnapshotInfo(t, id, vol) == Call(t, Frame("GetSnapshotInfo", id, vol))
ListVolume(t) == Call(t, ReadFrame("ListVolume", ""))
GetVolumeInfo(t, id) == Call(t, ReadFrame("GetVolumeInfo", id))
ListSnapshot(t, vol) == Call(t, Frame("ListSnapshot", "", vol))

\* d.mutex.Lock() at the head of the operation on top of the stack.
MutexLock(t) ==
    /\ vfsStack[t] # <<>>
    /\ Top(t).pc = "lock"
    /\ MutexFree
    /\ ~mutex.waiting
    /\ mutex' = [mutex EXCEPT !.writer = TRUE]
    /\ vfsStack' = SetTop(t, [Top(t) EXCEPT !.pc = "body"])
    /\ UNCHANGED <<vfsVolumes, vfsResult, VfsRest>>

\* d.mutex.Lock() while readers hold the mutex: the writer announces itself
\* and waits for them to leave.
MutexLockWait(t) ==
    /\ vfsStack[t] # <<>>
    /\ Top(t).pc = "lock"
    /\ ~mutex.writer
    /\ ~mutex.waiting
    /\ mutex.readers > 0
    /\ mutex' = [mutex EXCEPT !.waiting = TRUE]
    /\ vfsStack' = SetTop(t, [Top(t) EXCEPT !.pc = "wait"])
    /\ UNCHANGED <<vfsVolumes, vfsResult, VfsRest>>

\* The last reader has left: the waiting writer holds the mutex.
MutexLockWake(t) ==
    /\ vfsStack[t] # <<>>
    /\ Top(t).pc = "wait"
    /\ mutex.readers = 0
    /\ mutex' = [mutex EXCEPT !.writer = TRUE, !.waiting = FALSE]
    /\ vfsStack' = SetTop(t, [Top(t) EXCEPT !.pc = "body"])
    /\ UNCHANGED <<vfsVolumes, vfsResult, VfsRest>>

\* d.mutex.RLock() at the head of the operation on top of the stack: it
\* waits while a writer holds the mutex or waits for it.
MutexRLock(t) ==
    /\ vfsStack[t] # <<>>
    /\ Top(t).pc = "rlock"
    /\ ~mutex.writer
    /\ ~mutex.waiting
    /\ mutex' = [mutex EXCEPT !.readers = @ + 1]
    /\ vfsStack' = SetTop(t, [Top(t) EXCEPT !.pc = "body"])
    /\ UNCHANGED <<vfsVolumes, vfsResult, VfsRest>>

CreateVolumeBody(t) ==
    /\ InCall(t, "CreateVolume", "body")
    /\ LET f == Top(t)
       IN  IF vfsVolumes[f.id] # NoFile
           THEN /\ vfsStack' = SetTop(t, Returning(f, TRUE))
                /\ UNCHANGED vfsVolumes
           ELSE /\ vfsVolumes' = [vfsVolumes EXCEPT ![f.id] =
                                    File([Snapshots |-> {}])]
                /\ vfsStack' = SetTop(t, Returning(f, FALSE))
    /\ UNCHANGED <<mutex, vfsResult, VfsRest>>

CreateSnapshotBody(t) ==
    /\ InCall(t, "CreateSnapshot", "body")
    /\ LET f == Top(t)
       IN  IF vfsVolumes[f.vol] = NoFile
           THEN /\ vfsStack' = SetTop(t, Returning(f, TRUE))
                /\ UNCHANGED vfsVolumes
           ELSE IF f.id \in vfsVolumes[f.vol][1].Snapshots
           THEN /\ vfsStack' = SetTop(t, Returning(f, TRUE))
                /\ UNCHANGED vfsVolumes
           ELSE /\ vfsVolumes' = [vfsVolumes EXCEPT ![f.vol] =
                                    File([Snapshots |-> @[1].Snapshots \cup {f.id}])]
                /\ vfsStack' = SetTop(t, Returning(f, FALSE))
    /\ UNCHANGED <<mutex, vfsResult, VfsRest>>

GetSnapshotInfoBody(t) ==
    /\ InCall(t, "GetSnapshotInfo", "body")
    /\ LET f == Top(t)
           found == /\ vfsVolumes[f.vol] # NoFile
                    /\ f.id \in vfsVolumes[f.vol][1].Snapshots
       IN  vfsStack' = SetTop(t, Returning(f, ~found))
    /\ UNCHANGED <<vfsVolumes, mutex, vfsResult, VfsRest>>

\* The orders listVolumeIDs may give the ids of the volumes in.
ListedVolumeIDs ==
    LET ids == {v \in VfsVolumeIds : vfsVolumes[v] # NoFile}
    IN  {s \in [1..Cardinality(ids) -> ids] :
            \A i, j \in 1..Cardinality(ids) : i # j => s[i] # s[j]}

\* ListSnapshot up to its loop: the volume of opts, or every volume.
ListSnapshotBody(t) ==
    /\ InCall(t, "ListSnapshot", "body")
    /\ \E ids \in (IF Top(t).vol # "" THEN {<<Top(t).vol>>} ELSE ListedVolumeIDs) :
          vfsStack' = SetTop(t, [Top(t) EXCEPT !.pc = "volumes",
                                               !.volumeIDs = ids])
    /\ UNCHANGED <<vfsVolumes, mutex, vfsResult, VfsRest>>

\* for _, volumeID := range volumeIDs: the volume is loaded.
ListSnapshotVolume(t) ==
    /\ InCall(t, "ListSnapshot", "volumes")
    /\ LET f == Top(t)
       IN  IF f.volumeIDs = <<>>
           THEN vfsStack' = SetTop(t, Returning(f, FALSE))
           ELSE IF vfsVolumes[Head(f.volumeIDs)] = NoFile
           THEN vfsStack' = SetTop(t, Returning(f, TRUE))
           ELSE vfsStack' = SetTop(t,
                    [f EXCEPT !.pc = "snapshots",
                              !.vol = Head(f.volumeIDs),
                              !.volumeIDs = Tail(f.volumeIDs),
                              !.snapshots =
                                  vfsVolumes[Head(f.volumeIDs)][1].Snapshots])
    /\ UNCHANGED <<vfsVolumes, mutex, vfsResult, VfsRest>>

\* for snapshotID := range volume.Snapshots: d.GetSnapshotInfo is called
\* with the mutex held.
ListSnapshotSnapshot(t) ==
    /\ InCall(t, "ListSnapshot", "snapshots")
    /\ LET f == Top(t)
       IN  IF f.snapshots = {}
           THEN vfsStack' = SetTop(t, [f EXCEPT !.pc = "volumes"])
           ELSE \E s \in f.snapshots :
                  vfsStack' =
                     [vfsStack EXCEPT ![t] =
                        Append(SetTop(t, [f EXCEPT !.pc = "calling",
                                                   !.snapshots = @ \ {s}])[t],
                               Frame("GetSnapshotInfo", s, f.vol))]
    /\ UNCHANGED <<vfsVolumes, mutex, vfsResult, VfsRest>>

\* ListVolume up to its loop: the ids of the volumes.
ListVolumeBody(t) ==
    /\ InCall(t, "ListVolume", "body")
    /\ \E ids \in ListedVolumeIDs :
          vfsStack' = SetTop(t, [Top(t) EXCEPT !.pc = "volumes",
                                               !.volumeIDs = ids])
    /\ UNCHANGED <<vfsVolumes, mutex, vfsResult, VfsRest>>

\* for _, id := range volumeIDs: d.GetVolumeInfo is called with the mutex
\* read-locked.
ListVolumeVolume(t) ==
    /\ InCall(t, "ListVolume", "volumes")
    /\ LET f == Top(t)
       IN  IF f.volumeIDs = <<>>
           THEN vfsStack' = SetTop(t, Returning(f, FALSE))
           ELSE vfsStack' =
                  [vfsStack EXCEPT ![t] =
                     Append(SetTop(t, [f EXCEPT !.pc = "calling",
                                                !.volumeIDs = Tail(@)])[t],
                            ReadFrame("GetVolumeInfo", Head(f.volumeIDs)))]
    /\ UNCHANGED <<vfsVolumes, mutex, vfsResult, VfsRest>>

GetVolumeInfoBody(t) ==
    /\ InCall(t, "GetVolumeInfo", "body")
    /\ vfsStack' = SetTop(t, Returning(Top(t), vfsVolumes[Top(t).id] = NoFile))
    /\ UNCHANGED <<vfsVolumes, mutex, vfsResult, VfsRest>>

\* The operation on top of the stack returns: the deferred Unlock or RUnlock
\* runs, and the caller, ListSnapshot, ListVolume or the thread, gets the
\* result.
VfsReturn(t) ==
    /\ vfsStack[t] # <<>>
    /\ Top(t).pc = "return"
    /\ mutex' = IF Top(t).op \in ReadOps
                THEN [mutex EXCEPT !.readers = @ - 1]
                ELSE [mutex EXCEPT !.writer = FALSE]
    /\ LET f == Top(t)
           below == SubSeq(vfsStack[t], 1, Len(vfsStack[t]) - 1)
       IN  IF below = <<>>
           THEN /\ vfsStack' = [vfsStack EXCEPT ![t] = <<>>]
                /\ vfsResult' = [vfsResult EXCEPT ![t] =
                                    IF f.err THEN "err" ELSE "ok"]
           ELSE /\ vfsStack' =
                     [vfsStack EXCEPT ![t] =
                        [below EXCEPT ![Len(below)] =
                            IF f.err THEN Returning(@, TRUE)
                            ELSE [@ EXCEPT !.pc =
                                    IF below[Len(below)].op = "ListSnapshot"
                                    THEN "snapshots" ELSE "volumes"]]]
                /\ UNCHANGED vfsResult
    /\ UNCHANGED <<vfsVolumes, VfsRest>>

\* The steps of one thread.
VfsStep(t) ==
    \/ \E id \in VfsVolumeIds : CreateVolume(t, id)
    \/ \E id \in VfsSnapIds, vol \in VfsVolumeIds : CreateSnapshot(t, id, vol)
    \/ \E id \in VfsSnapIds, vol \in VfsVolumeIds : GetSnapshotInfo(t, id, vol)
    \/ \E vol \in VfsVolumeIds \cup {""} : ListSnapshot(t, vol)
    \/ ListVolume(t)
    \/ \E id \in VfsVolumeIds : GetVolumeInfo(t, id)
    \/ MutexLock(t)
    \/ MutexLockWait(t)
    \/ MutexLockWake(t)
    \/ MutexRLock(t)
    \/ CreateVolumeBody(t)
    \/ CreateSnapshotBody(t)
    \/ GetSnapshotInfoBody(t)
    \/ GetVolumeInfoBody(t)
    \/ ListSnapshotBody(t)
    \/ ListSnapshotVolume(t)
    \/ ListSnapshotSnapshot(t)
    \/ ListVolumeBody(t)
    \/ ListVolumeVolume(t)
    \/ VfsReturn(t)

NextVfs == \E t \in Threads : VfsStep(t)

InitVfs ==
    /\ src \in Sources /\ src["s1"] = AllZeros
    /\ FreshStore /\ InitCall /\ NoMerge /\ NoRegistry /\ NoRace /\ NoVfs

SpecVfs == InitVfs /\ [][NextVfs]_vars

\* ------------------------------------------------------------------ claims
Present(blk) == {d \in Digests : blk[d] # NoFile}
LastSnapshotIdOf(record) == record.Volumes[VolumeId].LastSnapshotId

\* C1: after BackupSnapshot of snapshot s returns without error, the persisted
\* Blockstore record has volumes[v].last_snapshot_id = s.
C1_LastSnapshotIdAdvances ==
    (pc = "idle" /\ result = "ok") => LastSnapshotIdOf(cfg) = snapshotId

\* The dirty blocks of the call: every offset e.Offset + i*block_size with
\* 0 <= i < e.Size / block_size of every extent e, with its digest.
DirtyBlocks ==
    LET pairs == {p \in Range(delta.Mappings) \X (0..(NBlocks - 1)) :
                    p[2] < p[1].Size \div DEFAULT_BLOCK_SIZE}
        OffsetOf(p) == p[1].Offset + p[2] * DEFAULT_BLOCK_SIZE
    IN  {[Offset |-> OffsetOf(p),
          Block |-> Digest(src[snapshotId][OffsetOf(p) \div DEFAULT_BLOCK_SIZE])] :
            p \in pairs}

LoopDone == pc \in {"merge", "write", "save"}

\* C2: once the block loop of a call has completed, the delta map holds an
\* entry {offset, digest} for every dirty block, uploaded or dedup hit.
C2_DeltaMapCoversDirtyBlocks ==
    LoopDone => DirtyBlocks \subseteq Range(snapshotDeltaMap)

\* C4: every manifest present names only digests whose block object exists
\* under the volume, and the manifest of every snapshot whose latest call
\* returned ok exists (while no later call of that snapshot is running).
ManifestResolves(s) ==
    manifests[s] # NoFile =>
        \A m \in Range(manifests[s][1].Blocks) : blocks[m.Block] # NoFile

C4_ChainIntegrity ==
    /\ \A s \in SnapIds : ManifestResolves(s)
    /\ \A s \in succeeded :
          (pc = "idle" \/ snapshotId # s) => manifests[s] # NoFile

\* Two snapshots are backed up, and a manifest names an uploaded block.
C4_Witness ==
    /\ succeeded = SnapIds
    /\ pc = "idle"
    /\ \E s \in SnapIds : manifests[s] # NoFile /\ manifests[s][1].Blocks # <<>>

\* The steps up to and including the block loop.
EarlySteps ==
    {"load", "notfound", "compare", "blocksize", "read", "mkdir", "write"}

\* Every block object of blk is in blk2, with the same payload.
BlocksKept(blk, blk2) == \A d \in Digests : blk[d] # NoFile => blk2[d] = blk[d]

\* C7: a call that fails at a step up to and including the block loop leaves
\* every manifest and the persisted record as they were when it started; it
\* can only have added block objects.
C7_EarlyFailureInvisible ==
    (pc = "idle" /\ result = "err" /\ failedAt \in EarlySteps) =>
        /\ manifests = pre.manifests
        /\ cfg = pre.cfg
        /\ BlocksKept(pre.blocks, blocks)

\* A call fails in the block loop after it has uploaded a block, with the
\* manifest of its snapshot in place from an earlier call.
C7_Witness ==
    /\ pc = "idle" /\ result = "err" /\ failedAt \in {"read", "mkdir", "write"}
    /\ blocks # pre.blocks
    /\ manifests[snapshotId] # NoFile

\* C8: a block Write is issued only for a digest the driver reports absent:
\* no block object present when the call started is rewritten or removed,
\* every Write of a call that has not failed created a new object, and when
\* the loop is done the new objects are exactly the digests of the dirty
\* blocks that were not present.
C8_WriteOnlyAbsent ==
    /\ BlocksKept(pre.blocks, blocks)
    /\ \A d \in Present(blocks) : \E c \in Contents : blocks[d] = File(c) /\ Digest(c) = d
    /\ result # "err" => writes = Cardinality(Present(blocks) \ Present(pre.blocks))
    /\ LoopDone =>
          Present(blocks) \ Present(pre.blocks)
            = {m.Block : m \in DirtyBlocks} \ Present(pre.blocks)

\* A call whose dirty blocks hold a digest twice and a second digest has
\* finished its loop with one Write per digest.
C8_Witness ==
    /\ LoopDone
    /\ writes = 2
    /\ Cardinality(DirtyBlocks) = NBlocks

StrictlyIncreasing(blks) ==
    \A i \in 1..(Len(blks) - 1) : blks[i].Offset < blks[i + 1].Offset

\* C9: as long as every delta the local driver reported was ascending, not
\* overlapping and block-aligned, the blocks of every manifest present are
\* strictly increasing by offset.
C9_ManifestOrdered ==
    driverOk =>
        \A s \in SnapIds :
            manifests[s] # NoFile => StrictlyIncreasing(manifests[s][1].Blocks)

\* A manifest merged from a delta map and a last manifest, both non-empty, is
\* written, and it has two entries or more.
C9_Witness ==
    /\ driverOk
    /\ pc = "save"
    /\ snapshotDeltaMap # <<>>
    /\ lastSnapshotMap.Blocks # <<>>
    /\ Len(manifests[snapshotId][1].Blocks) >= 2

\* The record names a last snapshot whose manifest the driver reports missing.
BrokenChain ==
    /\ LastSnapshotIdOf(cfg) # ""
    /\ ManifestFileSize(manifests, LastSnapshotIdOf(cfg)) < 0

\* C10: a call that starts on a broken chain returns an error at once, before
\* CompareSnapshot and before any block is read or written, and leaves the
\* record and the remote objects as they were.
C10_BrokenChainFails ==
    [][(pc = "idle" /\ BrokenChain) =>
          /\ pc' = "idle"
          /\ result' = "err"
          /\ delta' = NoDelta
          /\ writes' = 0
          /\ cfg' = cfg /\ blocks' = blocks /\ manifests' = manifests]_vars

\* A call found the chain broken and returned not-found.
C10_Witness ==
    /\ pc = "idle" /\ result = "err" /\ failedAt = "notfound"
    /\ BrokenChain

OffsetsOf(blks) == {m.Offset : m \in Range(blks)}

\* C3: for strictly ascending delta D and last L, mergeSnapshotMap(id, D, L)
\* is ascending by offset with exactly one entry for every offset of L or of
\* D and no other, and it carries the entry of D at every offset of D.
C3_MergeCorrect ==
    mergeOut # NoFile =>
        LET out == mergeOut[1].Blocks
        IN  /\ StrictlyIncreasing(out)
            /\ OffsetsOf(out) = OffsetsOf(mergeDelta.Blocks) \cup OffsetsOf(mergeLast.Blocks)
            /\ Range(mergeDelta.Blocks) \subseteq Range(out)

\* C5: when a call that returned ok is followed by a call of the same
\* snapshot with the source unchanged that returns ok, the second call leaves
\* the block objects and the manifests as the first left them, and issues no
\* block Write.
C5_IdempotentBackup ==
    \A i \in 1..(Len(done) - 1) :
        (done[i].result = "ok" /\ done[i + 1].result = "ok") =>
            /\ done[i + 1].post.blocks = done[i].post.blocks
            /\ done[i + 1].post.manifests = done[i].post.manifests
            /\ done[i + 1].writes = 0

\* C6: when a call is killed before the record is saved, last_snapshot_id is
\* as before the call, and a following call of the same snapshot that returns
\* ok leaves the store that one uninterrupted call started on the original
\* store leaves.
C6_CrashSafety ==
    \A i \in 1..Len(done) :
        done[i].result = "killed" =>
            /\ LastSnapshotIdOf(done[i].post.cfg) = LastSnapshotIdOf(done[i].pre.cfg)
            /\ (i < Len(done) /\ done[i + 1].result = "ok") =>
                  done[i + 1].post
                    = FullRun(done[i].pre, done[i + 1].snapshotId, done[i + 1].delta)

\* C11: a delta whose block size differs from the block size of the
\* blockstore never gets a call past the comparison, and the call that
\* fails on it has uploaded no block, written no manifest and left the
\* persisted record as it was.
C11_BlockSizeMismatchFails ==
    /\ pc \in {"loop", "merge", "write", "save"} =>
          delta.BlockSize = cfg.BlockSize
    /\ (pc = "idle" /\ result = "err" /\ failedAt = "blocksize") =>
          /\ writes = 0
          /\ blocks = pre.blocks
          /\ manifests = pre.manifests
          /\ cfg = pre.cfg

\* A call on a chained store failed on the block size.
C11_Witness ==
    /\ pc = "idle" /\ result = "err" /\ failedAt = "blocksize"
    /\ LastSnapshotIdOf(cfg) # ""
    /\ manifests[LastSnapshotIdOf(cfg)] # NoFile

\* C16: a call does not get to write its manifest when an extent of its
\* delta has a size that is not a multiple of the block size.
C16_BadExtentFails ==
    pc = "save" =>
        \A m \in Range(delta.Mappings) : m.Size % delta.BlockSize = 0

\* The persisted states of a call of snapshotId that started with no
\* manifest of that snapshot.
PreCommit ==
    /\ manifests[snapshotId] = NoFile
    /\ LastSnapshotIdOf(cfg) = LastSnapshotIdOf(pre.cfg)

ManifestWritten ==
    /\ manifests[snapshotId] # NoFile
    /\ ManifestResolves(snapshotId)
    /\ LastSnapshotIdOf(cfg) = LastSnapshotIdOf(pre.cfg)

PostCommit ==
    /\ manifests[snapshotId] # NoFile
    /\ ManifestResolves(snapshotId)
    /\ LastSnapshotIdOf(cfg) = snapshotId

Aborted ==
    /\ pc = "idle" /\ result = "killed"
    /\ pre.manifests[snapshotId] = NoFile

\* C17 as stated: an aborted call leaves the store pre-commit or post-commit.
C17_TwoStateAbort == Aborted => (PreCommit \/ PostCommit)

\* C17, amended: an aborted call of a snapshot that had no manifest leaves
\* the store pre-commit (no manifest, last_snapshot_id not advanced), with
\* the manifest written (manifest present, every block it names present,
\* last_snapshot_id not advanced), or post-commit.
C17_ThreeStateAbort == Aborted => (PreCommit \/ ManifestWritten \/ PostCommit)

\* A call is aborted after it wrote a manifest that names a block.
C17_Witness ==
    /\ Aborted
    /\ failedAt = "save"
    /\ manifests[snapshotId] # NoFile
    /\ manifests[snapshotId][1].Blocks # <<>>

\* C12: a Register called after a Register has succeeded, with no Deregister
\* in between, fails and leaves the Blockstore record as it was, whatever
\* its kind.
C12_SecondRegisterFails ==
    (regCall.op = "Register" /\ regPre # {}) =>
        /\ regCall.result # "ok"
        /\ ~regCall.wroteRecord

\* C13: a Register of a kind that is registered fails with already-exists,
\* leaves the local files and the remote objects as they were, and calls
\* neither the initializer of the driver nor MkDirAll.
C13_DuplicateRegisterUntouched ==
    (regCall.op = "Register" /\ regCall.arg \in regPre) =>
        /\ regCall.result = "already-exists"
        /\ ~regCall.touched
        /\ regCall.ctor = 0
        /\ regCall.mkdir = 0

\* The second Register of a kind was refused on a record that holds a volume.
C13_Witness ==
    /\ regCall.op = "Register" /\ regCall.arg \in regPre
    /\ regCall.result = "already-exists"
    /\ recordFile # NoFile
    /\ DOMAIN recordFile[1].Volumes # {}

\* C14: an AddVolume that fails with already-exists leaves the persisted
\* record and the remote objects as they were.
C14_AddVolumeCollisionUntouched ==
    (regCall.op = "AddVolume" /\ regCall.result = "already-exists") =>
        ~regCall.touched

\* C15: the block size of the persisted record is the block size written at
\* registration.
C15_BlockSizeImmutable ==
    recordFile # NoFile => recordFile[1].BlockSize = regBlockSize

\* A backup succeeded on a record that was registered twice and that holds
\* one volume while the other volume has been removed remotely.
C15_Witness ==
    /\ regCall.op = "BackupSnapshot" /\ regCall.result = "ok"
    /\ Cardinality(registered) = 2
    /\ Cardinality(DOMAIN recordFile[1].Volumes) = 1
    /\ recordFile[1].BlockSize = DEFAULT_BLOCK_SIZE

OneAfterTheOther ==
    BlockStep(BlockStep(raceInit, <<>>, 0, raceBlock[1]).blocks,
              <<>>, 0, raceBlock[2]).blocks

\* C19: when both runs have found the object of their block absent and both
\* have written it, the block being the same, the block objects are those of
\* one run after the other: the object named by the digest of the block
\* holds the block and every other object is as it was.
C19_RacingWritesAgree ==
    ((\A r \in Runs : racePc[r] = "written") /\ raceBlock[1] = raceBlock[2]) =>
        /\ raceBlocks = OneAfterTheOther
        /\ raceBlocks = [raceInit EXCEPT ![Digest(raceBlock[1])] =
                                            File(raceBlock[1])]

\* Both runs wrote the same block next to an object of another block that
\* was there before.
C19_Witness ==
    /\ \A r \in Runs : racePc[r] = "written"
    /\ raceBlock[1] = raceBlock[2]
    /\ \E d \in Digests : d # Digest(raceBlock[1]) /\ raceInit[d] # NoFile

\* A volume of the driver has a snapshot.
HasSnapshot ==
    \E v \in VfsVolumeIds :
        vfsVolumes[v] # NoFile /\ vfsVolumes[v][1].Snapshots # {}

\* The thread is in a call of op, and no other thread is in a call of an
\* operation outside others.
Calling(t, op, others) ==
    /\ vfsStack[t] # <<>>
    /\ vfsStack[t][1].op = op
    /\ \A u \in Threads \ {t} :
          vfsStack[u] = <<>> \/ vfsStack[u][1].op \in others

\* C20: a thread alone in a call of ListSnapshot, on a driver that has a
\* volume with a snapshot, can take a step: the call is not waiting for ever.
C20_ListSnapshotReturns ==
    \A t \in Threads :
        (Calling(t, "ListSnapshot", {}) /\ HasSnapshot) => ENABLED VfsStep(t)

\* C21: while a thread is in a call of ListVolume and the other threads are
\* idle or in a call of CreateVolume, some thread can take a step: the calls
\* are not all waiting for ever.
C21_ListVolumeReturns ==
    (\E t \in Threads : Calling(t, "ListVolume", {"CreateVolume"}))
    => ENABLED NextVfs

====
